---- MODULE Spec2Model ----
(***************************************************************************)
(* A model of the Azure Blob Storage cache provider (AzureCacheProvider):  *)
(* restoreCache, saveCache, findMatchingBlob and sanitizeBlobName, with    *)
(* the parts of ArchiveUtils they call, and of the factory that chooses    *)
(* between it and the GitHub provider.  Strings are sequences of           *)
(* one-character strings; the blob container is a function from blob       *)
(* names to blobs.  Every await of the code is a point where another call  *)
(* on the same provider may run, so each call advances one awaited         *)
(* operation at a time.                                                    *)
(***************************************************************************)
EXTENDS Integers, Sequences, FiniteSets, TLC

(***************************************************************************)
(* Bounds of the model.                                                    *)
(***************************************************************************)
\* number of restoreCache / saveCache calls made on the provider in one run
MaxCalls == 2
\* longest restoreKeys list a caller passes
MaxRestoreKeys == 2
\* latest lastModified of a blob that is in the container before the run
MaxInitTime == 2
\* longest of the short keys drawn for the sanitizer on its own
MaxKeyLen == 2
\* longest value of an input of the action
MaxInputLen == 2

(***************************************************************************)
(* Program constants.                                                      *)
(***************************************************************************)
CACHE_KEY_METADATA == "cachekey"
CREATED_AT_METADATA == "createdat"
MAX_BLOB_NAME_LENGTH == 1024
\* crypto sha256 hex digest, .substring(0, 8)
HashLength == 8

(***************************************************************************)
(* Strings.                                                                *)
(***************************************************************************)
\* character codes (UTF-16 code units) of the characters the model uses
Code(c) ==
    CASE c = "\t" -> 9
      [] c = " " -> 32
      [] c = "#" -> 35
      [] c = "0" -> 48
      [] c = "1" -> 49
      [] c = "2" -> 50
      [] c = "3" -> 51
      [] c = "4" -> 52
      [] c = "5" -> 53
      [] c = "6" -> 54
      [] c = "7" -> 55
      [] c = "8" -> 56
      [] c = "9" -> 57
      [] c = "?" -> 63
      [] c = "\\" -> 92
      [] c = "_" -> 95
      [] c = "a" -> 97
      [] c = "b" -> 98
      [] c = "c" -> 99
      [] c = "d" -> 100
      [] c = "e" -> 101
      [] c = "f" -> 102

\* String.prototype.startsWith, which is how listBlobsFlat({prefix}) selects
StartsWith(name, prefix) ==
    /\ Len(prefix) <= Len(name)
    /\ SubSeq(name, 1, Len(prefix)) = prefix

\* the order of two different names by UTF-16 code units
LexLess(a, b) ==
    \E i \in 1..(Len(a) + 1) :
        /\ \A j \in 1..(i - 1) : j <= Len(b) /\ a[j] = b[j]
        /\ \/ i = Len(a) + 1 /\ Len(b) > Len(a)
           \/ i <= Len(a) /\ i <= Len(b) /\ Code(a[i]) < Code(b[i])

(***************************************************************************)
(* sanitizeBlobName.                                                       *)
(***************************************************************************)
\* the characters the regular expression class \s matches, of those modelled
IsWhitespace(c) == c \in {" ", "\t"}

\* key.replace(/<ch>/g, "_") for one literal character
ReplaceAll(s, ch) == [i \in 1..Len(s) |-> IF s[i] = ch THEN "_" ELSE s[i]]

\* s.replace(/\s+/g, "_"): every maximal run of whitespace becomes one "_".
\* The string is split in halves; a run that crosses the split is one run.
RECURSIVE ReplaceWhitespaceRuns(_)
ReplaceWhitespaceRuns(s) ==
    IF Len(s) = 0 THEN <<>>
    ELSE IF Len(s) = 1 THEN (IF IsWhitespace(s[1]) THEN <<"_">> ELSE s)
    ELSE LET h == Len(s) \div 2
             L == ReplaceWhitespaceRuns(SubSeq(s, 1, h))
             R == ReplaceWhitespaceRuns(SubSeq(s, h + 1, Len(s)))
         IN  IF IsWhitespace(s[h]) /\ IsWhitespace(s[h + 1])
             THEN L \o Tail(R)
             ELSE L \o R

HexDigits == <<"0", "1", "2", "3", "4", "5", "6", "7",
               "8", "9", "a", "b", "c", "d", "e", "f">>

\* a sum over the characters of a key, weighted by position
RECURSIVE WeightedSum(_, _)
WeightedSum(s, from) ==
    IF Len(s) = 0 THEN 0
    ELSE IF Len(s) = 1 THEN Code(s[1]) * ((from % 251) + 1)
    ELSE LET h == Len(s) \div 2
         IN  WeightedSum(SubSeq(s, 1, h), from)
               + WeightedSum(SubSeq(s, h + 1, Len(s)), from + h)

\* crypto.createHash("sha256").update(key).digest("hex").substring(0, 8):
\* eight hexadecimal digits that depend on the whole original key.  SHA-256
\* itself is replaced by a small checksum: like the real digest it is a fixed
\* function of the key, and two keys may share its first eight digits.
HashOf(key) ==
    LET v == WeightedSum(key, 0)
    IN  [j \in 1..HashLength |->
            HexDigits[((v \div (16 ^ (HashLength - j))) % 16) + 1]]

\* the four replace calls
Replaced(key) ==
    ReplaceWhitespaceRuns(
        ReplaceAll(ReplaceAll(ReplaceAll(key, "\\"), "?"), "#"))

\* the base cut without room for the separator
sanitizeBlobNameLongBase(key) ==
    LET sanitized == Replaced(key)
        hash == HashOf(key)
        maxBaseLength == MAX_BLOB_NAME_LENGTH - Len(hash)
    IN  IF Len(sanitized) > MAX_BLOB_NAME_LENGTH
        THEN SubSeq(sanitized, 1, maxBaseLength) \o <<"_">> \o hash
        ELSE sanitized

\* a name as long as the maximum taken for too long
sanitizeBlobNameCutsAtBound(key) ==
    LET sanitized == Replaced(key)
        hash == HashOf(key)
        maxBaseLength == MAX_BLOB_NAME_LENGTH - Len(hash) - 1
    IN  IF Len(sanitized) >= MAX_BLOB_NAME_LENGTH
        THEN SubSeq(sanitized, 1, maxBaseLength) \o <<"_">> \o hash
        ELSE sanitized

sanitizeBlobName(key) ==
    LET sanitized == Replaced(key)
        hash == HashOf(key)
        maxBaseLength == MAX_BLOB_NAME_LENGTH - Len(hash) - 1
    IN  IF Len(sanitized) > MAX_BLOB_NAME_LENGTH
        THEN SubSeq(sanitized, 1, maxBaseLength) \o <<"_">> \o hash
        ELSE sanitized

(***************************************************************************)
(* Inputs.                                                                 *)
(***************************************************************************)
\* the keys callers save under in a run: "a b", "a_b"
CallKeys == { <<"a", " ", "b">>, <<"a", "_", "b">> }

\* the keys earlier runs may have saved under: those, and "a_c"
StoredKeys == CallKeys \cup { <<"a", "_", "c">> }

\* a key nothing was ever saved under: "a_d"
NewKey == <<"a", "_", "d">>

\* the primary keys callers restore with
PrimaryKeys == StoredKeys \cup { NewKey }

\* the restore keys (prefixes) callers pass: "a ", "a_b", "b"
RestoreKeySet == { <<"a", " ">>, <<"a", "_", "b">>, <<"b">> }

\* the restoreKeys lists callers pass: no key twice in a list
RestoreKeyLists ==
    UNION { { l \in [1..n -> RestoreKeySet] :
                \A i, j \in 1..n : l[i] = l[j] => i = j } :
            n \in 0..MaxRestoreKeys }

\* the cachePaths lists callers pass
PathLists == { <<"build">> }

\* what a caller asks restoreCache for
Requests ==
    [primaryKey : PrimaryKeys, restoreKeys : RestoreKeyLists]

\* what the runs with several calls restore with: a key that is saved under
\* ("a b") with no restore key, or one that is not, with the prefix "a "
RunRequests ==
    { [ primaryKey |-> <<"a", " ", "b">>, restoreKeys |-> <<>> ],
      [ primaryKey |-> NewKey, restoreKeys |-> << <<"a", " ">> >> ] }

CallIds == 1..MaxCalls

\* every blob name of the model's container
BlobNames == { sanitizeBlobName(k) : k \in StoredKeys }

(***************************************************************************)
(* State.                                                                  *)
(***************************************************************************)
VARIABLES
    container,   \* the blob container: blob name -> blob (bytes, metadata,
                 \* lastModified), for the blobs that exist
    clock,       \* the time, which passes with every upload
    listOrder,   \* the order in which the backend lists blob names
    calls,       \* the restoreCache / saveCache calls: inputs, position,
                 \* locals, temp files, result
    request,     \* the primaryKey and restoreKeys this run restores with
    callsLeft,   \* how many more calls the callers make
    overlap,     \* whether a call may start while another is running
    createFails, \* whether createIfNotExists fails in this run (the
                 \* credential may not create containers)
    sanKey,      \* the sanitizer on its own: the two keys given to it
    sanName,     \* the sanitizer on its own: what it returned for them
    inputs,      \* the action's inputs, as core.getInput returns them
    provider,    \* what createCacheProvider returned
    configured   \* what isAzureConfigured returned

vars ==
    <<container, clock, listOrder, calls, request, callsLeft, overlap,
      createFails, sanKey, sanName, inputs, provider, configured>>

\* an absent value (undefined); a present value v is <<v>>
Undefined == <<>>
Some(v) == <<v>>

(***************************************************************************)
(* The provider factory.                                                   *)
(***************************************************************************)
\* "github-actions-cache"
DEFAULT_CONTAINER_NAME ==
    <<"g", "i", "t", "h", "u", "b", "-", "a", "c", "t", "i", "o", "n", "s",
      "-", "c", "a", "c", "h", "e">>

\* what core.getInput may return for an input: "" when it is not given
InputValues == UNION {[1..n -> {"a", "b"}] : n \in 0..MaxInputLen}

Inputs == [connectionString : InputValues, containerName : InputValues]

\* the factory passing the container name on as it was given
createCacheProviderNoDefault(in) ==
    IF in.connectionString # <<>>
    THEN [ kind |-> "AzureCacheProvider",
           config |-> [ connectionString |-> in.connectionString,
                        containerName |-> in.containerName ] ]
    ELSE [ kind |-> "GitHubCacheProvider", config |-> <<>> ]

\* createCacheProvider: the Azure provider when the connection string is
\* truthy (not empty), the GitHub provider otherwise
createCacheProvider(in) ==
    LET connectionString == in.connectionString
        containerName == IF in.containerName # <<>>
                         THEN in.containerName
                         ELSE DEFAULT_CONTAINER_NAME
    IN  IF connectionString # <<>>
        THEN [ kind |-> "AzureCacheProvider",
               config |-> [ connectionString |-> connectionString,
                            containerName |-> containerName ] ]
        ELSE [ kind |-> "GitHubCacheProvider", config |-> <<>> ]

\* isAzureConfigured: Boolean(connectionString)
isAzureConfigured(in) == in.connectionString # <<>>

\* the inputs of a run that uses the Azure provider
AzureInputs == [connectionString |-> <<"a">>, containerName |-> <<>>]

\* a call slot before the call is made
NoCall ==
    [ op |-> "none", pc |-> "idle",
      primaryKey |-> <<>>, restoreKeys |-> <<>>, lookupOnly |-> FALSE,
      cachePaths |-> <<>>,
      blobName |-> <<>>, cacheKey |-> <<>>, i |-> 0,
      checkedAt |-> 0,       \* when saveCache's exists() was answered
      error |-> FALSE,       \* an exception is on its way to the catch block
      exitCode |-> -1,       \* the exit code of tar, once tar has run
      files |-> {},          \* what exists of this call's temp directory
      trace |-> <<>>,        \* the awaited operations the call has started
      logged |-> {},         \* the messages the call has logged
      outcome |-> "none",    \* "returned" or "threw" once the call is over
      result |-> Undefined,  \* what restoreCache returned
      cacheId |-> 0 ]        \* what saveCache returned

\* the blobs that may be in the container before the run: written by an
\* earlier saveCache under one of the keys, or by another tool (no metadata)
InitBlobs(name) ==
    { [ content |-> [paths |-> paths, by |-> 0],
        metadata |-> md,
        lastModified |-> t ] :
        paths \in { <<"build">> },
        md \in { [cachekey |-> Some(k), createdat |-> Some(0)] :
                    k \in { k \in StoredKeys : sanitizeBlobName(k) = name } }
               \cup { [cachekey |-> Undefined, createdat |-> Undefined] },
        t \in 1..MaxInitTime }

EmptyContainer == [n \in {} |-> 0]

InitContainers ==
    UNION { { f \in [S -> UNION { InitBlobs(n) : n \in S }] :
                \A n \in S : f[n] \in InitBlobs(n) } : S \in SUBSET BlobNames }

\* the names in ascending order, as Azure lists them
RECURSIVE Ascending(_)
Ascending(S) ==
    IF S = {} THEN <<>>
    ELSE LET least == CHOOSE n \in S : \A m \in S \ {n} : LexLess(n, m)
         IN  <<least>> \o Ascending(S \ {least})

Reverse(s) == [j \in 1..Len(s) |-> s[Len(s) + 1 - j]]

ListOrders == { Ascending(BlobNames), Reverse(Ascending(BlobNames)) }

\* an empty container, and callers that make MaxCalls calls, which overlap
\* in every way
Init ==
    /\ container = EmptyContainer
    /\ clock = MaxInitTime
    /\ listOrder = Ascending(BlobNames)
    /\ calls = [c \in CallIds |-> NoCall]
    /\ request \in RunRequests
    /\ callsLeft = MaxCalls
    /\ overlap = TRUE
    /\ createFails \in BOOLEAN
    /\ sanKey = <<>>
    /\ sanName = <<>>
    /\ inputs = AzureInputs
    /\ provider = Some(createCacheProvider(AzureInputs))
    /\ configured = Undefined

\* the same, with every call made after the one before it has returned
SeqInit ==
    /\ container = EmptyContainer
    /\ clock = MaxInitTime
    /\ listOrder = Ascending(BlobNames)
    /\ calls = [c \in CallIds |-> NoCall]
    /\ request \in RunRequests
    /\ callsLeft = MaxCalls
    /\ overlap = FALSE
    /\ createFails \in BOOLEAN
    /\ sanKey = <<>>
    /\ sanName = <<>>
    /\ inputs = AzureInputs
    /\ provider = Some(createCacheProvider(AzureInputs))
    /\ configured = Undefined

\* any container, listed in either order, and one call made on it
ResolveInit ==
    /\ container \in InitContainers
    /\ clock = MaxInitTime
    /\ listOrder \in ListOrders
    /\ calls = [c \in CallIds |-> NoCall]
    /\ request \in Requests
    /\ callsLeft = 1
    /\ overlap = TRUE
    /\ createFails \in BOOLEAN
    /\ sanKey = <<>>
    /\ sanName = <<>>
    /\ inputs = AzureInputs
    /\ provider = Some(createCacheProvider(AzureInputs))
    /\ configured = Undefined

(***************************************************************************)
(* findMatchingBlob.                                                       *)
(***************************************************************************)
\* containerClient.listBlobsFlat({ prefix }): the names of the existing
\* blobs that start with the prefix, in the backend's order
ListBlobsFlat(blobs, order, prefix) ==
    SelectSeq(order, LAMBDA n : n \in DOMAIN blobs /\ StartsWith(n, prefix))

\* the metadata not looked at: always the other value
OrElseOther(opt, other) == other

\* a || b on strings: the empty string and undefined are both falsy
OrElse(opt, other) ==
    IF opt # Undefined /\ opt[1] # <<>> THEN opt[1] ELSE other

\* the matches array built by the for-await loop: one entry per listed blob,
\* with the key from its metadata, or its name when it has none
MatchesOf(blobs, order, prefix) ==
    LET listed == ListBlobsFlat(blobs, order, prefix)
    IN  [j \in 1..Len(listed) |->
            [ blobItem |->
                [ name |-> listed[j],
                  properties |->
                      [lastModified |-> Some(blobs[listed[j]].lastModified)] ],
              cacheKey |->
                  OrElse(blobs[listed[j]].metadata.cachekey, listed[j]) ]]

\* a.blobItem.properties.lastModified?.getTime() || 0
TimeOf(m) ==
    IF m.blobItem.properties.lastModified = Undefined
    THEN 0
    ELSE m.blobItem.properties.lastModified[1]

\* the comparator with its operands exchanged: oldest first
CompareMatchesAscending(a, b) == TimeOf(a) - TimeOf(b)

\* the comparator given to sort: negative when a is to come first
CompareMatches(a, b) == TimeOf(b) - TimeOf(a)

\* a sort that is not stable: of entries the comparator calls equal, the one
\* listed later comes first
RECURSIVE SortMatchesTiesLast(_)
SortMatchesTiesLast(ms) ==
    IF Len(ms) <= 1 THEN ms
    ELSE LET front == SortMatchesTiesLast(SubSeq(ms, 1, Len(ms) - 1))
             last == ms[Len(ms)]
             before == SelectSeq(front, LAMBDA e : CompareMatches(e, last) < 0)
             after == SelectSeq(front, LAMBDA e : CompareMatches(e, last) >= 0)
         IN  before \o <<last>> \o after

\* Array.prototype.sort, which is stable: entries the comparator calls equal
\* keep the order they were listed in
RECURSIVE SortMatches(_)
SortMatches(ms) ==
    IF Len(ms) <= 1 THEN ms
    ELSE LET front == SortMatches(SubSeq(ms, 1, Len(ms) - 1))
             last == ms[Len(ms)]
             before == SelectSeq(front, LAMBDA e : CompareMatches(e, last) <= 0)
             after == SelectSeq(front, LAMBDA e : CompareMatches(e, last) > 0)
         IN  before \o <<last>> \o after

\* blobClient.exists() that never finds the blob
blobExistsNever(blobs, blobName) == FALSE

\* blobClient.exists()
blobExists(blobs, blobName) == blobName \in DOMAIN blobs

\* the exact-match step left out: straight to the restore keys
ExactMatchSkipped(blobs, primaryKey) == Undefined

\* the exact-match step: the primary key's blob, when it exists
ExactMatch(blobs, primaryKey) ==
    LET primaryBlobName == sanitizeBlobName(primaryKey)
        primaryExists == blobExists(blobs, primaryBlobName)
    IN  IF primaryExists
        THEN Some([cacheKey |-> primaryKey, blobName |-> primaryBlobName])
        ELSE Undefined

\* one round of the loop with the prefix not given to listBlobsFlat
PrefixMatchUnfiltered(blobs, order, restoreKey) ==
    LET matches == MatchesOf(blobs, order, <<>>)
        bestMatch == SortMatches(matches)[1]
    IN  IF Len(matches) > 0
        THEN Some([ cacheKey |-> bestMatch.cacheKey,
                    blobName |-> bestMatch.blobItem.name ])
        ELSE Undefined

\* one round of the loop over restoreKeys: the most recent blob under the
\* restore key's prefix, when there is any
PrefixMatch(blobs, order, restoreKey) ==
    LET prefix == sanitizeBlobName(restoreKey)
        matches == MatchesOf(blobs, order, prefix)
        bestMatch == SortMatches(matches)[1]
    IN  IF Len(matches) > 0
        THEN Some([ cacheKey |-> bestMatch.cacheKey,
                    blobName |-> bestMatch.blobItem.name ])
        ELSE Undefined

\* findMatchingBlob run against one state of the container
RECURSIVE FirstPrefixMatch(_, _, _)
FirstPrefixMatch(blobs, order, restoreKeys) ==
    IF restoreKeys = <<>> THEN Undefined
    ELSE LET m == PrefixMatch(blobs, order, Head(restoreKeys))
         IN  IF m # Undefined THEN m
             ELSE FirstPrefixMatch(blobs, order, Tail(restoreKeys))

findMatchingBlob(blobs, order, primaryKey, restoreKeys) ==
    LET exact == ExactMatch(blobs, primaryKey)
    IN  IF exact # Undefined THEN exact
        ELSE FirstPrefixMatch(blobs, order, restoreKeys)

(***************************************************************************)
(* restoreCache and saveCache, one awaited operation at a time.            *)
(***************************************************************************)
Started(call, step) == [call EXCEPT !.trace = Append(@, step)]

\* core.info, core.warning, core.debug: the message is kept by its kind
Logged(call, message) == [call EXCEPT !.logged = @ \cup {message}]

\* a catch block that logs the warning and throws the error on
RestoreCatchRethrows(call) ==
    [Logged(call, "warning") EXCEPT
        !.pc = "done", !.outcome = "threw", !.error = FALSE]

\* the catch block of restoreCache: a warning, and an absent result
RestoreCatch(call) ==
    [Logged(call, "warning") EXCEPT
        !.pc = "done", !.outcome = "returned", !.error = FALSE,
        !.result = Undefined]

\* a catch block that logs the warning and throws the error on
SaveCatchRethrows(call) ==
    [Logged(call, "warning") EXCEPT
        !.pc = "done", !.outcome = "threw", !.error = FALSE]

\* the catch block of saveCache: a warning, and -1
SaveCatch(call) ==
    [Logged(call, "warning") EXCEPT
        !.pc = "done", !.outcome = "returned", !.error = FALSE,
        !.cacheId = -1]

Catch(call) ==
    IF call.op = "restore" THEN RestoreCatch(call) ELSE SaveCatch(call)

\* the same, with lookup-only mode reporting the key that was asked for
RestoreResolvedReportsPrimary(call, match) ==
    IF match = Undefined
    THEN [Logged(call, "noCacheFound") EXCEPT
             !.pc = "done", !.outcome = "returned", !.result = Undefined]
    ELSE LET found == [Logged(call, "cacheFound") EXCEPT
                          !.cacheKey = match[1].cacheKey,
                          !.blobName = match[1].blobName]
         IN  IF call.lookupOnly
             THEN [Logged(found, "lookupOnly") EXCEPT
                      !.pc = "done", !.outcome = "returned",
                      !.result = Some(call.primaryKey)]
             ELSE [found EXCEPT !.pc = "mkdir"]

\* restoreCache once findMatchingBlob has returned: no match, lookup only,
\* or on to the download
RestoreResolved(call, match) ==
    IF match = Undefined
    THEN [Logged(call, "noCacheFound") EXCEPT
             !.pc = "done", !.outcome = "returned", !.result = Undefined]
    ELSE LET found == [Logged(call, "cacheFound") EXCEPT
                          !.cacheKey = match[1].cacheKey,
                          !.blobName = match[1].blobName]
         IN  IF call.lookupOnly
             THEN [Logged(found, "lookupOnly") EXCEPT
                      !.pc = "done", !.outcome = "returned",
                      !.result = Some(match[1].cacheKey)]
             ELSE [found EXCEPT !.pc = "mkdir"]

\* the callers make their calls in the order of the call ids
CanStart(c) ==
    /\ calls[c].pc = "idle"
    /\ \A d \in 1..(c - 1) : calls[d].pc # "idle"
    /\ callsLeft > 0
    /\ overlap \/ \A d \in CallIds : calls[d].pc \in {"idle", "done"}

\* a caller calls restoreCache
StartRestore(c) ==
    /\ CanStart(c)
    /\ callsLeft' = callsLeft - 1
    /\ \E lookup \in BOOLEAN :
          calls' = [calls EXCEPT ![c] =
                       [NoCall EXCEPT !.op = "restore", !.pc = "ensure",
                                      !.primaryKey = request.primaryKey,
                                      !.restoreKeys = request.restoreKeys,
                                      !.lookupOnly = lookup]]
    /\ UNCHANGED <<container, clock, listOrder, request, createFails, overlap,
                   sanKey, sanName, inputs, provider, configured>>

\* a caller calls saveCache
StartSave(c) ==
    /\ CanStart(c)
    /\ callsLeft' = callsLeft - 1
    /\ \E pk \in CallKeys, paths \in PathLists :
          calls' = [calls EXCEPT ![c] =
                       [NoCall EXCEPT !.op = "save", !.pc = "ensure",
                                      !.primaryKey = pk,
                                      !.cachePaths = paths]]
    /\ UNCHANGED <<container, clock, listOrder, request, createFails, overlap,
                   sanKey, sanName, inputs, provider, configured>>

\* an ensureContainerExists without its try/catch: the failure of
\* createIfNotExists reaches the catch block of the call
EnsureContainerExistsThrows(c) ==
    /\ calls[c].pc = "ensure"
    /\ \E failed \in {createFails} :
          calls' = [calls EXCEPT ![c] =
                       IF failed
                       THEN Catch(Started(calls[c], "ensure"))
                       ELSE [Started(calls[c], "ensure") EXCEPT
                                !.pc = "exists"]]
    /\ UNCHANGED <<container, clock, listOrder, request, createFails,
                   callsLeft, overlap, sanKey, sanName, inputs, provider,
                   configured>>

\* ensureContainerExists: createIfNotExists, its failure only logged (debug)
EnsureContainerExists(c) ==
    /\ calls[c].pc = "ensure"
    /\ \E failed \in {createFails} :
          calls' = [calls EXCEPT ![c] =
                       IF failed
                       THEN [Logged(Started(calls[c], "ensure"),
                                    "containerCheck") EXCEPT !.pc = "exists"]
                       ELSE [Started(calls[c], "ensure") EXCEPT
                                !.pc = "exists"]]
    /\ UNCHANGED <<container, clock, listOrder, request, createFails,
                   callsLeft, overlap, sanKey, sanName, inputs, provider,
                   configured>>

\* findMatchingBlob, the exact match: primaryBlob.exists()
RestoreExists(c) ==
    LET call == Started(calls[c], "resolve")
        exact == ExactMatch(container, call.primaryKey)
    IN  /\ calls[c].pc = "exists"
        /\ calls[c].op = "restore"
        /\ \E failed \in BOOLEAN :
              calls' = [calls EXCEPT ![c] =
                  IF failed THEN RestoreCatch(call)
                  ELSE IF exact # Undefined THEN RestoreResolved(call, exact)
                  ELSE IF call.restoreKeys = <<>>
                       THEN RestoreResolved(call, Undefined)
                       ELSE [call EXCEPT !.pc = "list", !.i = 1]]
        /\ UNCHANGED <<container, clock, listOrder, request, createFails,
                       callsLeft, overlap, sanKey, sanName, inputs, provider,
                       configured>>

\* findMatchingBlob, one restore key: listBlobsFlat, getProperties of every
\* listed blob, sort, first
RestoreList(c) ==
    LET call == calls[c]
        prefixed == PrefixMatch(container, listOrder, call.restoreKeys[call.i])
    IN  /\ call.pc = "list"
        /\ \E failed \in BOOLEAN :
              calls' = [calls EXCEPT ![c] =
                  IF failed THEN RestoreCatch(call)
                  ELSE IF prefixed # Undefined
                       THEN RestoreResolved(call, prefixed)
                  ELSE IF call.i = Len(call.restoreKeys)
                       THEN RestoreResolved(call, Undefined)
                       ELSE [call EXCEPT !.i = call.i + 1]]
        /\ UNCHANGED <<container, clock, listOrder, request, createFails,
                       callsLeft, overlap, sanKey, sanName, inputs, provider,
                       configured>>

\* saveCache: sanitizeBlobName, then blobClient.exists()
SaveExists(c) ==
    LET call == [Started(calls[c], "exists") EXCEPT
                    !.blobName = sanitizeBlobName(calls[c].primaryKey),
                    !.checkedAt = clock]
        exists == blobExists(container, call.blobName)
    IN  /\ calls[c].pc = "exists"
        /\ calls[c].op = "save"
        /\ \E failed \in BOOLEAN :
              calls' = [calls EXCEPT ![c] =
                  IF failed THEN SaveCatch(call)
                  ELSE IF exists
                       THEN [Logged(call, "alreadyExists") EXCEPT
                                !.pc = "done", !.outcome = "returned",
                                !.cacheId = -1]
                       ELSE [call EXCEPT !.pc = "mkdir"]]
        /\ UNCHANGED <<container, clock, listOrder, request, createFails,
                       callsLeft, overlap, sanKey, sanName, inputs, provider,
                       configured>>

\* createTempDirectory: mkdir of a directory no other call uses
CreateTempDirectory(c) ==
    LET call == Started(calls[c], "mkdir")
    IN  /\ calls[c].pc = "mkdir"
        /\ \E failed \in BOOLEAN :
              calls' = [calls EXCEPT ![c] =
                  IF failed THEN Catch(call)
                  ELSE [call EXCEPT
                           !.files = {"dir"},
                           !.pc = IF call.op = "restore"
                                  THEN "download" ELSE "archive"]]
        /\ UNCHANGED <<container, clock, listOrder, request, createFails,
                       callsLeft, overlap, sanKey, sanName, inputs, provider,
                       configured>>

\* downloadBlob called without await: the extraction starts at once
DownloadBlobNotAwaited(c) ==
    /\ calls[c].pc = "download"
    /\ calls' = [calls EXCEPT ![c] =
                    [Started(calls[c], "download") EXCEPT !.pc = "extract"]]
    /\ UNCHANGED <<container, clock, listOrder, request, createFails,
                   callsLeft, overlap, sanKey, sanName, inputs, provider,
                   configured>>

\* a download that clears the cachekey metadata of the blob it reads
DownloadBlobClearsMetadata(c) ==
    /\ calls[c].pc = "download"
    /\ calls' = [calls EXCEPT ![c] =
                    [Started(calls[c], "download") EXCEPT
                        !.files = @ \cup {"archive"}, !.pc = "extract"]]
    /\ container' = [container EXCEPT
                        ![calls[c].blobName].metadata.cachekey = Undefined]
    /\ UNCHANGED <<clock, listOrder, request, createFails, callsLeft,
                   overlap, sanKey, sanName, inputs, provider, configured>>

\* downloadBlob: blobClient.download(), then the stream piped to the archive
\* file.  download() rejects or gives no body; the write stream finishes or
\* fails with a part of the file written; or neither "finish" nor "error"
\* ever comes from the write stream (the body stalls, or the body itself
\* fails: the only "error" listener is on the write stream), and the promise
\* stays pending, since nothing bounds the wait
DownloadBlob(c) ==
    LET call == Started(calls[c], "download")
    IN  /\ calls[c].pc = "download"
        /\ \E end \in {"finish", "rejected", "streamError", "pending"} :
              calls' = [calls EXCEPT ![c] =
                  CASE end = "finish" ->
                         [call EXCEPT !.files = @ \cup {"archive"},
                                      !.pc = "extract"]
                    [] end = "rejected" ->
                         [call EXCEPT !.error = TRUE, !.pc = "cleanup"]
                    [] end = "streamError" ->
                         [call EXCEPT !.files = @ \cup {"archive"},
                                      !.error = TRUE, !.pc = "cleanup"]
                    [] end = "pending" ->
                         [call EXCEPT !.files = @ \cup {"archive"},
                                      !.pc = "pending"]]
        /\ UNCHANGED <<container, clock, listOrder, request, createFails,
                       callsLeft, overlap, sanKey, sanName, inputs, provider,
                       configured>>

\* ArchiveUtils.extractArchive: getTarPath throws and tar is not run (-1),
\* or tar -x runs; a nonzero exit code is thrown
ExtractArchive(c) ==
    LET call == Started(calls[c], "extract")
    IN  /\ calls[c].pc = "extract"
        /\ \E exitCode \in {-1, 0, 2} :
              calls' = [calls EXCEPT ![c] =
                  [call EXCEPT !.exitCode = exitCode,
                               !.error = (exitCode # 0), !.pc = "cleanup"]]
        /\ UNCHANGED <<container, clock, listOrder, request, createFails,
                       callsLeft, overlap, sanKey, sanName, inputs, provider,
                       configured>>

\* the ways ArchiveUtils.createArchive ends
ArchiveEnds ==
    { "toolNotFound",   \* getTarPath: io.which("tar", true) throws
      "writeFailed",    \* the manifest cannot be written
      "tarFailed",      \* tar exits nonzero, no archive file
      "tarFailedPart",  \* tar exits nonzero, part of the archive written
      "created",        \* tar exits 0, manifest unlinked
      "unlinkFailed" }  \* tar exits 0, the unlink fails and is ignored

\* ArchiveUtils.createArchive on the temp directory: the files it leaves,
\* and whether it threw
createArchive(files, end) ==
    CASE end \in {"toolNotFound", "writeFailed"} ->
           [files |-> files, exitCode |-> -1, threw |-> TRUE]
      [] end = "tarFailed" ->
           [files |-> files \cup {"manifest"}, exitCode |-> 2,
            threw |-> TRUE]
      [] end = "tarFailedPart" ->
           [files |-> files \cup {"manifest", "archive"}, exitCode |-> 2,
            threw |-> TRUE]
      [] end = "created" ->
           [files |-> files \cup {"archive"}, exitCode |-> 0,
            threw |-> FALSE]
      [] end = "unlinkFailed" ->
           [files |-> files \cup {"manifest", "archive"}, exitCode |-> 0,
            threw |-> FALSE]

\* a createArchive that returns the archive path whatever tar did
CreateArchiveIgnoresExitCode(c) ==
    LET call == Started(calls[c], "archive")
    IN  /\ calls[c].pc = "archive"
        /\ \E end \in ArchiveEnds :
              LET made == createArchive(call.files, end)
              IN  calls' = [calls EXCEPT ![c] =
                        [call EXCEPT !.files = made.files,
                                     !.exitCode = made.exitCode,
                                     !.pc = "upload"]]
        /\ UNCHANGED <<container, clock, listOrder, request, createFails,
                       callsLeft, overlap, sanKey, sanName, inputs, provider,
                       configured>>

\* saveCache: createArchive, then fs.promises.stat of the archive
CreateArchive(c) ==
    LET call == Started(calls[c], "archive")
    IN  /\ calls[c].pc = "archive"
        /\ \E end \in ArchiveEnds, statFailed \in BOOLEAN :
              LET made == createArchive(call.files, end)
              IN  /\ statFailed => ~made.threw
                  /\ calls' = [calls EXCEPT ![c] =
                        IF made.threw \/ statFailed
                        THEN [call EXCEPT !.files = made.files,
                                          !.exitCode = made.exitCode,
                                          !.error = TRUE, !.pc = "cleanup"]
                        ELSE [call EXCEPT !.files = made.files,
                                          !.exitCode = made.exitCode,
                                          !.pc = "upload"]]
        /\ UNCHANGED <<container, clock, listOrder, request, createFails,
                       callsLeft, overlap, sanKey, sanName, inputs, provider,
                       configured>>

\* the upload made without the metadata option
uploadStreamNoMetadata(blobs, blobName, content, cacheKey, time) ==
    (blobName :> [ content |-> content,
                   metadata |-> [ cachekey |-> Undefined,
                                  createdat |-> Undefined ],
                   lastModified |-> time + 1 ]) @@ blobs

\* the upload made under the cache key instead of the sanitized name
uploadStreamUnderKey(blobs, blobName, content, cacheKey, time) ==
    (cacheKey :> [ content |-> content,
                   metadata |-> [ cachekey |-> Some(cacheKey),
                                  createdat |-> Some(time) ],
                   lastModified |-> time + 1 ]) @@ blobs

\* blockBlobClient.uploadStream with the two metadata fields: the blob is
\* committed whole, replacing any blob of that name
uploadStream(blobs, blobName, content, cacheKey, time) ==
    (blobName :> [ content |-> content,
                   metadata |-> [ cachekey |-> Some(cacheKey),
                                  createdat |-> Some(time) ],
                   lastModified |-> time + 1 ]) @@ blobs

\* uploadBlob: stat, then uploadStream; either may fail, and uploadStream
\* may never settle (nothing bounds the wait), no blob committed
UploadBlob(c) ==
    LET call == Started(calls[c], "upload")
    IN  /\ calls[c].pc = "upload"
        /\ \E end \in {"complete", "failed", "pending"} :
              IF end # "complete"
              THEN /\ calls' = [calls EXCEPT ![c] =
                          IF end = "failed"
                          THEN [call EXCEPT !.error = TRUE, !.pc = "cleanup"]
                          ELSE [call EXCEPT !.pc = "pending"]]
                   /\ UNCHANGED <<container, clock>>
              ELSE /\ container' = uploadStream(container, call.blobName,
                                                [paths |-> call.cachePaths,
                                                 by |-> c],
                                                call.primaryKey, clock)
                   /\ clock' = clock + 1
                   /\ calls' = [calls EXCEPT ![c] =
                          [call EXCEPT !.pc = "cleanup"]]
        /\ UNCHANGED <<listOrder, request, createFails, callsLeft, overlap,
                       sanKey, sanName, inputs, provider, configured>>

\* a cleanup that removes the archive file and leaves the directory
cleanupArchiveOnly(call, failed) ==
    IF failed THEN Logged(call, "cleanupFailed")
    ELSE [call EXCEPT !.files = @ \ {"archive"}]

\* cleanupTempDirectory: rm -rf of the temp directory, its failure only logged
cleanupTempDirectory(call, failed) ==
    IF failed THEN Logged(call, "cleanupFailed")
    ELSE [call EXCEPT !.files = {}]

\* the finally block, then what the try block was returning or throwing
CleanupTempDirectory(c) ==
    /\ calls[c].pc = "cleanup"
    /\ \E failed \in BOOLEAN :
          LET call == cleanupTempDirectory(calls[c], failed)
          IN  calls' = [calls EXCEPT ![c] =
                  IF call.error THEN Catch(call)
                  ELSE IF call.op = "restore"
                       THEN [Logged(call, "restored") EXCEPT
                                !.pc = "done", !.outcome = "returned",
                                !.result = Some(call.cacheKey)]
                       ELSE [Logged(call, "saved") EXCEPT
                                !.pc = "done", !.outcome = "returned",
                                !.cacheId = clock + 1]]
    /\ UNCHANGED <<container, clock, listOrder, request, createFails,
                   callsLeft, overlap, sanKey, sanName, inputs, provider,
                   configured>>

Next ==
    \E c \in CallIds :
        \/ StartRestore(c)
        \/ StartSave(c)
        \/ EnsureContainerExists(c)
        \/ RestoreExists(c)
        \/ RestoreList(c)
        \/ SaveExists(c)
        \/ CreateTempDirectory(c)
        \/ DownloadBlob(c)
        \/ ExtractArchive(c)
        \/ CreateArchive(c)
        \/ UploadBlob(c)
        \/ CleanupTempDirectory(c)

Spec == Init /\ [][Next]_vars

SeqSpec == SeqInit /\ [][Next]_vars

\* the same, with the event loop running every continuation that is ready
\* and the backend and the tools ending every operation they can end
LiveSpec == SeqInit /\ [][Next]_vars /\ WF_vars(Next)

ResolveSpec == ResolveInit /\ [][Next]_vars

(***************************************************************************)
(* sanitizeBlobName on its own: two keys are given to it, one after the    *)
(* other.                                                                  *)
(***************************************************************************)
\* the characters of the short keys: a letter, the characters that are
\* replaced, and the character they are replaced by
KeyChars == {"a", " ", "\t", "_", "?", "#", "\\"}

ShortKeys == UNION {[1..n -> KeyChars] : n \in 0..MaxKeyLen}

\* n times the character c
Repeat(c, n) == [i \in 1..n |-> c]

\* keys around the maximum length: as long as the maximum, one longer (two
\* of them, alike in their first 1015 characters), and one longer whose
\* sanitized form is as long as the maximum
LongKeys ==
    { Repeat("a", MAX_BLOB_NAME_LENGTH),
      Repeat("a", MAX_BLOB_NAME_LENGTH + 1),
      Repeat("a", MAX_BLOB_NAME_LENGTH) \o <<"b">>,
      Repeat("a", MAX_BLOB_NAME_LENGTH - 1) \o <<" ", " ">> }

SanKeys == ShortKeys \cup LongKeys

SanInit ==
    /\ container = EmptyContainer
    /\ clock = MaxInitTime
    /\ listOrder = <<>>
    /\ calls = [c \in CallIds |-> NoCall]
    /\ request = [primaryKey |-> NewKey, restoreKeys |-> <<>>]
    /\ callsLeft = 0
    /\ overlap = FALSE
    /\ createFails = FALSE
    /\ sanKey = <<>>
    /\ sanName = <<>>
    /\ inputs = AzureInputs
    /\ provider = Some(createCacheProvider(AzureInputs))
    /\ configured = Undefined

\* one call of sanitizeBlobName
Sanitize(key) ==
    /\ Len(sanKey) < 2
    /\ sanKey' = Append(sanKey, key)
    /\ sanName' = Append(sanName, sanitizeBlobName(key))
    /\ UNCHANGED <<container, clock, listOrder, calls, request, createFails,
                   callsLeft, overlap, inputs, provider, configured>>

\* sanitizeBlobName called on the name it returned before
SanitizeAgain ==
    /\ Len(sanKey) = 1
    /\ Sanitize(sanName[1])

SanNext ==
    \/ \E key \in SanKeys : Sanitize(key)
    \/ SanitizeAgain

SanSpec == SanInit /\ [][SanNext]_vars

(***************************************************************************)
(* The factory on its own: the action reads its inputs and asks for a      *)
(* provider, and asks whether Azure is configured.                         *)
(***************************************************************************)
FactoryInit ==
    /\ container = EmptyContainer
    /\ clock = MaxInitTime
    /\ listOrder = <<>>
    /\ calls = [c \in CallIds |-> NoCall]
    /\ request = [primaryKey |-> NewKey, restoreKeys |-> <<>>]
    /\ callsLeft = 0
    /\ overlap = FALSE
    /\ createFails = FALSE
    /\ sanKey = <<>>
    /\ sanName = <<>>
    /\ inputs \in Inputs
    /\ provider = Undefined
    /\ configured = Undefined

CreateCacheProvider ==
    /\ provider = Undefined
    /\ provider' = Some(createCacheProvider(inputs))
    /\ UNCHANGED <<container, clock, listOrder, calls, request, createFails,
                   callsLeft, overlap, sanKey, sanName, inputs, configured>>

IsAzureConfigured ==
    /\ configured = Undefined
    /\ configured' = Some(isAzureConfigured(inputs))
    /\ UNCHANGED <<container, clock, listOrder, calls, request, createFails,
                   callsLeft, overlap, sanKey, sanName, inputs, provider>>

FactoryNext == CreateCacheProvider \/ IsAzureConfigured

FactorySpec == FactoryInit /\ [][FactoryNext]_vars

(***************************************************************************)
(* Resolution: which blob findMatchingBlob returns.                        *)
(***************************************************************************)
\* findMatchingBlob has returned to restoreCache, which logged what it got
FindReturned(c) ==
    /\ calls[c].op = "restore"
    /\ calls[c].logged \cap {"cacheFound", "noCacheFound"} # {}

PrimaryExists(c) ==
    sanitizeBlobName(calls[c].primaryKey) \in DOMAIN container

\* the stored objects whose name starts with the sanitized restore key
Bucket(restoreKey) ==
    { n \in DOMAIN container : StartsWith(n, sanitizeBlobName(restoreKey)) }

\* the positions of the restore keys that match anything
MatchingKeys(c) ==
    { i \in 1..Len(calls[c].restoreKeys) :
        Bucket(calls[c].restoreKeys[i]) # {} }

FirstMatchingKey(c) ==
    CHOOSE i \in MatchingKeys(c) : \A j \in MatchingKeys(c) : i <= j

\* C1: whenever an object named sanitizeBlobName(primaryKey) exists,
\* findMatchingBlob returns cacheKey = primaryKey and that object's name,
\* whatever the restore keys match and however recent those objects are.
C1_ExactMatchWins ==
    \A c \in CallIds :
        FindReturned(c) /\ PrimaryExists(c) =>
            /\ "cacheFound" \in calls[c].logged
            /\ calls[c].cacheKey = calls[c].primaryKey
            /\ calls[c].blobName = sanitizeBlobName(calls[c].primaryKey)

\* findMatchingBlob returned while the exact object exists and a restore key
\* matches another, more recent object
C1_Witness ==
    \E c \in CallIds :
        /\ FindReturned(c) /\ PrimaryExists(c)
        /\ \E i \in MatchingKeys(c) :
              \E n \in Bucket(calls[c].restoreKeys[i]) :
                  /\ n # sanitizeBlobName(calls[c].primaryKey)
                  /\ container[n].lastModified >
                       container[sanitizeBlobName(calls[c].primaryKey)]
                           .lastModified

\* C2: with no exact match, findMatchingBlob returns an object of the match
\* set of the first restore key, in the caller's order, that matches anything
\* (so never an object that only a later restore key matches), and nothing
\* when no restore key matches.
C2_FirstMatchingRestoreKey ==
    \A c \in CallIds :
        FindReturned(c) /\ ~PrimaryExists(c) =>
            IF MatchingKeys(c) = {}
            THEN /\ "noCacheFound" \in calls[c].logged
                 /\ calls[c].pc = "done"
                 /\ calls[c].result = Undefined
            ELSE /\ "cacheFound" \in calls[c].logged
                 /\ calls[c].blobName
                      \in Bucket(calls[c].restoreKeys[FirstMatchingKey(c)])

\* findMatchingBlob returned an object of an earlier restore key while a
\* later restore key matches an object that the earlier one does not match
\* and that is more recent than all the earlier one matches
C2_Witness ==
    \E c \in CallIds :
        /\ FindReturned(c) /\ ~PrimaryExists(c)
        /\ MatchingKeys(c) # {}
        /\ LET first == Bucket(calls[c].restoreKeys[FirstMatchingKey(c)])
           IN  \E j \in MatchingKeys(c) :
                  \E n \in Bucket(calls[c].restoreKeys[j]) \ first :
                      \A m \in first :
                          container[n].lastModified > container[m].lastModified

\* C3: when the result comes from a restore key, no object whose name starts
\* with that sanitized restore key has a later lastModified than the
\* returned object.
C3_MostRecentOfBucket ==
    \A c \in CallIds :
        FindReturned(c) /\ ~PrimaryExists(c) /\ MatchingKeys(c) # {} =>
            /\ calls[c].blobName \in DOMAIN container
            /\ \A n \in Bucket(calls[c].restoreKeys[FirstMatchingKey(c)]) :
                  container[n].lastModified
                      <= container[calls[c].blobName].lastModified

\* the result comes from a restore key whose bucket holds an older object too
C3_Witness ==
    \E c \in CallIds :
        /\ FindReturned(c) /\ ~PrimaryExists(c) /\ MatchingKeys(c) # {}
        /\ calls[c].blobName \in DOMAIN container
        /\ \E n \in Bucket(calls[c].restoreKeys[FirstMatchingKey(c)]) :
              container[n].lastModified
                  < container[calls[c].blobName].lastModified

(***************************************************************************)
(* The calls: results, failures, temp directories.                         *)
(***************************************************************************)
\* the call has started the awaited operation
InTrace(c, step) ==
    \E k \in 1..Len(calls[c].trace) : calls[c].trace[k] = step

Restore(c) == calls[c].op = "restore"
Save(c) == calls[c].op = "save"
Done(c) == calls[c].pc = "done"

C5_SaveNeverThrows ==
    \A c \in CallIds :
        Save(c) =>
            /\ calls[c].outcome # "threw"
            /\ Done(c) =>
                 /\ calls[c].outcome = "returned"
                 /\ "saved" \notin calls[c].logged => calls[c].cacheId = -1

\* a saveCache call has returned -1 after its upload failed
C5_Witness ==
    \E c \in CallIds :
        /\ Save(c) /\ Done(c)
        /\ InTrace(c, "upload")
        /\ "warning" \in calls[c].logged
        /\ calls[c].outcome = "returned"
        /\ calls[c].cacheId = -1

\* the second of two saveCache calls with the same key and paths, made after
\* the first returned a positive id
SecondSave(c1, c2) ==
    /\ c1 < c2
    /\ Save(c1) /\ Save(c2)
    /\ calls[c1].primaryKey = calls[c2].primaryKey
    /\ calls[c1].cachePaths = calls[c2].cachePaths
    /\ Done(c1) /\ calls[c1].cacheId > 0

\* C6: of two saveCache calls with the same key and paths made one after the
\* other, the first succeeding, the second starts no archive and no upload
\* and returns -1, and the one object under sanitizeBlobName(primaryKey) is
\* the one the first call wrote.
C6_SecondSaveSkips ==
    \A c1, c2 \in CallIds :
        SecondSave(c1, c2) =>
            LET name == sanitizeBlobName(calls[c1].primaryKey)
            IN  /\ ~InTrace(c2, "archive")
                /\ ~InTrace(c2, "upload")
                /\ Done(c2) => calls[c2].cacheId = -1
                /\ name \in DOMAIN container
                /\ container[name].content
                     = [paths |-> calls[c1].cachePaths, by |-> c1]
                /\ container[name].metadata.cachekey
                     = Some(calls[c1].primaryKey)
                /\ Cardinality({ n \in DOMAIN container :
                        container[n].metadata.cachekey
                          = Some(calls[c1].primaryKey) }) = 1

\* the second call has returned, having found the first call's blob
C6_Witness ==
    \E c1, c2 \in CallIds :
        /\ SecondSave(c1, c2)
        /\ Done(c2)
        /\ "alreadyExists" \in calls[c2].logged

\* C7, as claimed: under every interleaving of saveCache calls, an object
\* that exists is never written again: its bytes and metadata never change.
C7_NeverOverwritten ==
    [][\A n \in DOMAIN container :
          n \in DOMAIN container' /\ container'[n] = container[n]]_vars

\* C7, amended: an upload is made only by a call whose own exists() found no
\* object under the name; an object under that name while the call is between
\* its check and its upload was stored after the check, by a call that
\* overlaps it, and is then overwritten.
C7_OverwriteOnlyAfterOwnCheck ==
    \A c \in CallIds :
        /\ Save(c)
        /\ calls[c].pc \in {"mkdir", "archive", "upload"}
        /\ calls[c].blobName \in DOMAIN container
        => container[calls[c].blobName].lastModified > calls[c].checkedAt

\* a call is about to upload over an object another call stored after the
\* first one's check
C7_Witness ==
    \E c \in CallIds :
        /\ Save(c)
        /\ calls[c].pc = "upload"
        /\ calls[c].blobName \in DOMAIN container
        /\ container[calls[c].blobName].content.by # c

\* what restoreCache returns when no step fails: the key findMatchingBlob
\* finds in the container
Resolved(c) ==
    LET match == findMatchingBlob(container, listOrder,
                                  calls[c].primaryKey, calls[c].restoreKeys)
    IN  IF match = Undefined THEN Undefined ELSE Some(match[1].cacheKey)

\* C8: a lookup-only restoreCache starts no temp-directory creation, download
\* or extraction, and a restoreCache call in which no step fails returns,
\* with lookupOnly as without it, the key resolved on the container (or
\* undefined when nothing matches).
C8_LookupOnlySameKey ==
    \A c \in CallIds :
        Restore(c) =>
            /\ calls[c].lookupOnly =>
                 /\ ~InTrace(c, "mkdir")
                 /\ ~InTrace(c, "download")
                 /\ ~InTrace(c, "extract")
                 /\ calls[c].files = {}
            /\ Done(c) /\ "warning" \notin calls[c].logged =>
                 calls[c].result = Resolved(c)

\* a lookup-only call has returned the key of a restore-key match, which is
\* not the key it was called with
C8_Witness ==
    \E c \in CallIds :
        /\ Restore(c) /\ Done(c)
        /\ calls[c].lookupOnly
        /\ calls[c].result # Undefined
        /\ calls[c].result # Some(calls[c].primaryKey)

\* C9, as claimed: no temp directory, archive or manifest of a call exists
\* when the call has returned.
C9_TempDirRemoved ==
    \A c \in CallIds : Done(c) => calls[c].files = {}

\* C9, amended: when the call has returned, its temp directory and the files
\* in it are gone unless the removal itself failed (which is only logged).
C9_TempDirRemovedUnlessRmFailed ==
    \A c \in CallIds :
        Done(c) /\ "cleanupFailed" \notin calls[c].logged
            => calls[c].files = {}

\* a saveCache call whose archiving failed has returned, its directory gone
C9_Witness ==
    \E c \in CallIds :
        /\ Save(c) /\ Done(c)
        /\ InTrace(c, "archive") /\ ~InTrace(c, "upload")
        /\ "cleanupFailed" \notin calls[c].logged
        /\ calls[c].files = {}

(***************************************************************************)
(* Object names.                                                           *)
(***************************************************************************)
\* C10: two different keys whose sanitized forms are not longer than the
\* maximum name length get different names from sanitizeBlobName.
C10_SanitizeInjectiveBelowBound ==
    /\ Len(sanKey) = 2
    /\ sanKey[1] # sanKey[2]
    /\ Len(Replaced(sanKey[1])) <= MAX_BLOB_NAME_LENGTH
    /\ Len(Replaced(sanKey[2])) <= MAX_BLOB_NAME_LENGTH
    => sanName[1] # sanName[2]

\* the positions of the keys sanitizeBlobName has been called with
Sanitized == 1..Len(sanKey)

\* C11: the name sanitizeBlobName returns is never longer than
\* MAX_BLOB_NAME_LENGTH; for a key whose sanitized form is longer, it is the
\* first MAX_BLOB_NAME_LENGTH - 9 characters of the sanitized form, an
\* underscore, and the 8 hexadecimal digits of the digest of the key.
C11_NameLengthBounded ==
    \A k \in Sanitized :
        /\ Len(sanName[k]) <= MAX_BLOB_NAME_LENGTH
        /\ Len(Replaced(sanKey[k])) > MAX_BLOB_NAME_LENGTH =>
             /\ Len(sanName[k]) = MAX_BLOB_NAME_LENGTH
             /\ SubSeq(sanName[k], 1, MAX_BLOB_NAME_LENGTH - 9)
                  = SubSeq(Replaced(sanKey[k]), 1, MAX_BLOB_NAME_LENGTH - 9)
             /\ sanName[k][MAX_BLOB_NAME_LENGTH - 8] = "_"
             /\ SubSeq(sanName[k], MAX_BLOB_NAME_LENGTH - 7,
                       MAX_BLOB_NAME_LENGTH) = HashOf(sanKey[k])
             /\ \A j \in (MAX_BLOB_NAME_LENGTH - 7)..MAX_BLOB_NAME_LENGTH :
                    \E d \in 1..16 : sanName[k][j] = HexDigits[d]

\* a key one character longer than the maximum has been given a name
C11_Witness ==
    \E k \in Sanitized :
        /\ Len(sanKey[k]) = MAX_BLOB_NAME_LENGTH + 1
        /\ Len(Replaced(sanKey[k])) > MAX_BLOB_NAME_LENGTH
        /\ Len(sanName[k]) = MAX_BLOB_NAME_LENGTH

\* the key is within the maximum length and has no backslash, question mark,
\* hash or whitespace
Clean(key) ==
    /\ Len(key) <= MAX_BLOB_NAME_LENGTH
    /\ \A j \in 1..Len(key) :
          key[j] \notin {"\\", "?", "#"} /\ ~IsWhitespace(key[j])

\* C12: a clean key is its own name, and the name of that name is the same
\* name again.
C12_StableOnCleanInput ==
    /\ \A k \in Sanitized : Clean(sanKey[k]) => sanName[k] = sanKey[k]
    /\ Len(sanKey) = 2 /\ sanKey[2] = sanName[1] /\ Clean(sanKey[1])
         => sanName[2] = sanName[1]

\* a clean key as long as the maximum has been sanitized, and its name
\* sanitized again
C12_Witness ==
    /\ Len(sanKey) = 2
    /\ Len(sanKey[1]) = MAX_BLOB_NAME_LENGTH
    /\ Clean(sanKey[1])
    /\ sanKey[2] = sanName[1]
    /\ sanName[2] = sanKey[1]

(***************************************************************************)
(* Save, then restore.                                                     *)
(***************************************************************************)
\* the first call on the empty container was a saveCache that succeeded
FirstSaveSucceeded ==
    /\ Save(1) /\ Done(1)
    /\ calls[1].cacheId > 0

\* the call after it is a restoreCache of the same key with no restore keys,
\* which has returned without a failure
RestoredAfterSave ==
    /\ FirstSaveSucceeded
    /\ Restore(2) /\ Done(2)
    /\ calls[2].primaryKey = calls[1].primaryKey
    /\ calls[2].restoreKeys = <<>>
    /\ ~calls[2].lookupOnly
    /\ "warning" \notin calls[2].logged

\* C13: on an empty container a successful saveCache(paths, K) creates one
\* object, named sanitizeBlobName(K), with metadata cachekey = K; a
\* restoreCache(paths, K, []) after it, with no failure, downloads that
\* object, extracts it and returns K.
C13_SaveRestoreRoundTrip ==
    LET K == calls[1].primaryKey
        name == sanitizeBlobName(K)
    IN  /\ FirstSaveSucceeded
             /\ (\A c \in CallIds \ {1} : ~InTrace(c, "upload"))
           => /\ DOMAIN container = {name}
              /\ container[name].metadata.cachekey = Some(K)
              /\ container[name].content.paths = calls[1].cachePaths
        /\ RestoredAfterSave
           => /\ calls[2].result = Some(K)
              /\ calls[2].blobName = name
              /\ InTrace(2, "download")
              /\ InTrace(2, "extract")

\* the round trip has been made with a key that is not its own object name
C13_Witness ==
    /\ RestoredAfterSave
    /\ sanitizeBlobName(calls[1].primaryKey) # calls[1].primaryKey
    /\ calls[2].result = Some(calls[1].primaryKey)

(***************************************************************************)
(* The key reported for a prefix match.                                    *)
(***************************************************************************)
\* findMatchingBlob returned a match that is not the exact one
PrefixMatched(c) ==
    /\ FindReturned(c)
    /\ "cacheFound" \in calls[c].logged
    /\ ~PrimaryExists(c)

\* C14: the cacheKey of a prefix match is the cachekey metadata of the blob
\* selected, and the blob's name only when the blob has no such metadata.
C14_ReportedKeyFromMetadata ==
    \A c \in CallIds :
        PrefixMatched(c) =>
            LET selected == container[calls[c].blobName]
            IN  IF selected.metadata.cachekey # Undefined
                THEN calls[c].cacheKey = selected.metadata.cachekey[1]
                ELSE calls[c].cacheKey = calls[c].blobName

\* a prefix match has been reported under a key that is not the blob's name,
\* and is not the key asked for
C14_Witness ==
    \E c \in CallIds :
        /\ PrefixMatched(c)
        /\ container[calls[c].blobName].metadata.cachekey
             = Some(calls[c].cacheKey)
        /\ calls[c].cacheKey # calls[c].blobName
        /\ calls[c].cacheKey # calls[c].primaryKey

(***************************************************************************)
(* Transfers.                                                              *)
(***************************************************************************)
\* C15: a call that has reached its download or its upload returns in the
\* end: a transfer that never completes is given up as failed after the
\* timeout, and no call waits on it forever.
C15_EveryCallReturns ==
    \A c \in CallIds :
        (calls[c].pc \in {"download", "upload"}) ~> (calls[c].pc = "done")

\* the upload of the saveCache call did not complete
UploadFailed(c) ==
    /\ Save(c)
    /\ InTrace(c, "upload")
    /\ \/ calls[c].pc = "pending"
       \/ calls[c].pc = "cleanup" /\ calls[c].error
       \/ Done(c) /\ "saved" \notin calls[c].logged

\* C16: every object in the container has the whole archive of the call that
\* wrote it and both metadata fields, and a saveCache call whose upload
\* failed or never completed has left no object of its own.
C16_NoPartialObject ==
    /\ \A n \in DOMAIN container :
          /\ container[n].metadata.cachekey # Undefined
          /\ container[n].metadata.createdat # Undefined
          /\ container[n].content.by \in CallIds
          /\ container[n].content.paths
               = calls[container[n].content.by].cachePaths
          /\ container[n].metadata.cachekey
               = Some(calls[container[n].content.by].primaryKey)
    /\ \A c \in CallIds :
          UploadFailed(c) =>
              \A n \in DOMAIN container : container[n].content.by # c

\* one call's upload has failed, and the object another call stored under
\* the same name is there, whole
C16_Witness ==
    \E c \in CallIds :
        /\ UploadFailed(c) /\ Done(c)
        /\ calls[c].blobName \in DOMAIN container
        /\ container[calls[c].blobName].content.by # c

(***************************************************************************)
(* ensureContainerExists.                                                  *)
(***************************************************************************)
\* createIfNotExists failed in the call
EnsureFailed(c) == createFails /\ InTrace(c, "ensure")

\* C17: a call in which createIfNotExists failed goes on to the resolution
\* (restoreCache) or the existence check (saveCache); it ends in the catch
\* block only through a later step, and when no later step fails it returns
\* what its later steps give: the key resolved, or the id of the save.
C17_EnsureFailureNonFatal ==
    \A c \in CallIds :
        EnsureFailed(c) =>
            /\ "containerCheck" \in calls[c].logged
            /\ calls[c].pc \notin {"idle", "ensure"}
            /\ Done(c) =>
                 /\ Len(calls[c].trace) >= 2
                 /\ calls[c].trace[2]
                      = IF Restore(c) THEN "resolve" ELSE "exists"
            /\ Restore(c) /\ Done(c) /\ "warning" \notin calls[c].logged
                 => calls[c].result = Resolved(c)
            /\ Save(c) /\ Done(c)
                 /\ calls[c].logged \cap {"warning", "alreadyExists"} = {}
                 => /\ calls[c].cacheId > 0
                    /\ container[calls[c].blobName].content.by = c

\* a restoreCache call in which createIfNotExists failed has downloaded and
\* extracted a cache and returned its key
C17_Witness ==
    \E c \in CallIds :
        /\ EnsureFailed(c)
        /\ Restore(c) /\ Done(c)
        /\ InTrace(c, "extract")
        /\ calls[c].result # Undefined

(***************************************************************************)
(* The provider factory.                                                   *)
(***************************************************************************)
\* C18: createCacheProvider returns the Azure provider exactly when the
\* connection string is not empty and the GitHub provider exactly when it
\* is; isAzureConfigured is true exactly when the provider is the Azure one;
\* an empty container name becomes github-actions-cache.
C18_ProviderSelection ==
    /\ provider # Undefined =>
         /\ provider[1].kind = "AzureCacheProvider"
              <=> inputs.connectionString # <<>>
         /\ provider[1].kind = "GitHubCacheProvider"
              <=> inputs.connectionString = <<>>
         /\ provider[1].kind = "AzureCacheProvider" =>
              /\ provider[1].config.connectionString
                   = inputs.connectionString
              /\ provider[1].config.containerName
                   = IF inputs.containerName = <<>>
                     THEN <<"g", "i", "t", "h", "u", "b", "-", "a", "c", "t",
                            "i", "o", "n", "s", "-", "c", "a", "c", "h", "e">>
                     ELSE inputs.containerName
    /\ provider # Undefined /\ configured # Undefined =>
         (configured[1] <=> provider[1].kind = "AzureCacheProvider")

\* with a connection string and no container name, the Azure provider has
\* been created on the default container and Azure is reported configured
C18_Witness ==
    /\ inputs.connectionString # <<>>
    /\ inputs.containerName = <<>>
    /\ provider # Undefined
    /\ provider[1].kind = "AzureCacheProvider"
    /\ Len(provider[1].config.containerName) = 20
    /\ configured = Some(TRUE)

(***************************************************************************)
(* The order of the steps of one call.                                     *)
(***************************************************************************)
IsPrefix(t, steps) ==
    /\ Len(t) <= Len(steps)
    /\ t = SubSeq(steps, 1, Len(t))

\* the awaited steps of restoreCache and of saveCache, in the order of the
\* code
RestoreSteps == <<"ensure", "resolve", "mkdir", "download", "extract">>
SaveSteps == <<"ensure", "exists", "mkdir", "archive", "upload">>

\* C19: a call starts its steps in the order of the code, each after the one
\* before it has completed: the download starts with the match resolved, the
\* extraction with the archive downloaded, the upload with the archive
\* created; a restoreCache call that is not lookup-only returns a key only
\* after the extraction succeeded.
C19_StepOrder ==
    \A c \in CallIds :
        /\ Restore(c) => IsPrefix(calls[c].trace, RestoreSteps)
        /\ Save(c) => IsPrefix(calls[c].trace, SaveSteps)
        /\ calls[c].pc = "download" =>
             /\ "cacheFound" \in calls[c].logged
             /\ calls[c].blobName \in DOMAIN container
        /\ calls[c].pc = "extract" => "archive" \in calls[c].files
        /\ calls[c].pc = "archive" =>
             /\ calls[c].blobName = sanitizeBlobName(calls[c].primaryKey)
             /\ calls[c].checkedAt > 0
        /\ calls[c].pc = "upload" => "archive" \in calls[c].files
        /\ Restore(c) /\ Done(c) /\ ~calls[c].lookupOnly
             /\ calls[c].result # Undefined
           => /\ calls[c].trace = RestoreSteps
              /\ "warning" \notin calls[c].logged

\* a restoreCache call has gone through all its steps and returned a key,
\* and a saveCache call through all of its steps
C19_Witness ==
    \E c, d \in CallIds :
        /\ Restore(c) /\ Done(c)
        /\ calls[c].trace = RestoreSteps
        /\ calls[c].result # Undefined
        /\ Save(d) /\ Done(d)
        /\ calls[d].trace = SaveSteps
        /\ calls[d].cacheId > 0

(***************************************************************************)
(* The manifest file.                                                      *)
(***************************************************************************)
\* createArchive has returned or thrown in the call, and the temp directory
\* has not been removed yet
ArchiveCallOver(c) ==
    /\ Save(c)
    /\ InTrace(c, "archive")
    /\ calls[c].pc \in {"upload", "pending", "cleanup"}

\* C20: when createArchive has returned or thrown, the manifest file it
\* wrote does not exist any more.
C20_ManifestRemoved ==
    \A c \in CallIds :
        ArchiveCallOver(c) => "manifest" \notin calls[c].files

(***************************************************************************)
(* Failures of the archiving tool.                                         *)
(***************************************************************************)
\* tar was not found, or exited with a nonzero status, in the given step
TarFailed(c, step) ==
    /\ InTrace(c, step)
    /\ calls[c].pc # step
    /\ calls[c].exitCode # 0

\* C21: when tar is not found or exits nonzero in createArchive, saveCache
\* attempts no upload, stores nothing and returns -1; when it does in
\* extractArchive, restoreCache returns undefined.
C21_ArchiveFailureBlocksUpload ==
    \A c \in CallIds :
        /\ Save(c) /\ TarFailed(c, "archive") =>
             /\ ~InTrace(c, "upload")
             /\ calls[c].pc \in {"cleanup", "done"}
             /\ calls[c].pc = "cleanup" => calls[c].error
             /\ Done(c) => /\ calls[c].cacheId = -1
                           /\ "warning" \in calls[c].logged
             /\ \A n \in DOMAIN container : container[n].content.by # c
        /\ Restore(c) /\ TarFailed(c, "extract") =>
             /\ calls[c].pc \in {"cleanup", "done"}
             /\ calls[c].pc = "cleanup" => calls[c].error
             /\ Done(c) => /\ calls[c].result = Undefined
                           /\ "warning" \in calls[c].logged

\* a saveCache call in which tar exited nonzero has returned -1, the
\* container still empty
C21_Witness ==
    \E c \in CallIds :
        /\ Save(c) /\ Done(c)
        /\ TarFailed(c, "archive")
        /\ calls[c].exitCode = 2
        /\ calls[c].cacheId = -1
        /\ container = EmptyContainer

(***************************************************************************)
(* Objects of one bucket with the same lastModified.                       *)
(***************************************************************************)
\* the blobs of the first matching restore key, as the backend lists them
ListedBucket(c) ==
    ListBlobsFlat(container, listOrder,
                  sanitizeBlobName(calls[c].restoreKeys[FirstMatchingKey(c)]))

\* the positions in a listing of the blobs with the latest lastModified
LatestOf(listed) ==
    LET times == [ j \in 1..Len(listed) |-> container[listed[j]].lastModified ]
    IN  { j \in 1..Len(listed) :
            \A k \in 1..Len(listed) : times[k] <= times[j] }

LatestListed(c) == LatestOf(ListedBucket(c))

\* C22, as claimed: the object findMatchingBlob returned is the one it
\* returns under every order in which the backend may list the blobs.
C22_SameUnderEveryListingOrder ==
    \A c \in CallIds :
        FindReturned(c) /\ "cacheFound" \in calls[c].logged =>
            \A order \in ListOrders :
                findMatchingBlob(container, order, calls[c].primaryKey,
                                 calls[c].restoreKeys)
                  = Some([ cacheKey |-> calls[c].cacheKey,
                           blobName |-> calls[c].blobName ])

\* C22, amended: a prefix match is the blob listed first among the blobs of
\* the bucket with the latest lastModified, so that with the listing order
\* the same, the same object is returned.
C22_FirstListedAmongLatest ==
    \A c \in CallIds :
        PrefixMatched(c) =>
            LET listed == ListedBucket(c)
                latest == LatestOf(listed)
            IN  \E j \in latest :
                    /\ \A k \in latest : j <= k
                    /\ calls[c].blobName = listed[j]

\* a prefix match has been returned from a bucket in which two blobs share
\* the latest lastModified
C22_Witness ==
    \E c \in CallIds :
        /\ PrefixMatched(c)
        /\ Cardinality(LatestListed(c)) >= 2
        /\ calls[c].blobName = ListedBucket(c)[1]

(***************************************************************************)
(* The keys restoreCache returns, against the keys that were asked for.    *)
(***************************************************************************)
\* restoreCache has returned a key
ReturnedKey(c) ==
    /\ Restore(c) /\ Done(c)
    /\ calls[c].result # Undefined

\* C23: a key restoreCache returns equals primaryKey or starts with one of
\* the restore keys given.
C23_ReturnedKeyMatchesRequest ==
    \A c \in CallIds :
        ReturnedKey(c) =>
            \/ calls[c].result[1] = calls[c].primaryKey
            \/ \E i \in 1..Len(calls[c].restoreKeys) :
                  StartsWith(calls[c].result[1], calls[c].restoreKeys[i])

\* C25: a key restoreCache returns for an object that carries cachekey
\* metadata is that metadata, for an exact match as for a prefix match.
C25_ReturnedKeyIsMetadata ==
    \A c \in CallIds :
        /\ ReturnedKey(c)
        /\ calls[c].blobName \in DOMAIN container
        /\ container[calls[c].blobName].metadata.cachekey # Undefined
        => calls[c].result
             = container[calls[c].blobName].metadata.cachekey

(***************************************************************************)
(* The value saveCache returns.                                            *)
(***************************************************************************)
\* the object of the key is in the store: named sanitizeBlobName(key), with
\* cachekey metadata the key and createdat metadata set
Stored(blobs, key) ==
    LET name == sanitizeBlobName(key)
    IN  /\ name \in DOMAIN blobs
        /\ blobs[name].metadata.cachekey = Some(key)
        /\ blobs[name].metadata.createdat # Undefined

\* C24: saveCache returns a value above 0 only if its upload completed, and
\* when it returns that value the object named sanitizeBlobName(primaryKey)
\* exists with cachekey metadata primaryKey and createdat metadata set; in
\* every other case it returns -1.
C24_PositiveResultMeansStored ==
    [][\A c \in CallIds :
          Save(c) /\ ~Done(c) /\ calls'[c].pc = "done" =>
              /\ calls'[c].cacheId > 0 =>
                    /\ InTrace(c, "upload")
                    /\ ~calls[c].error
                    /\ Stored(container', calls[c].primaryKey)
              /\ calls'[c].cacheId > 0 \/ calls'[c].cacheId = -1]_vars

(***************************************************************************)
(* What restoreCache does to the store.                                    *)
(***************************************************************************)
\* C26: no step of a restoreCache call creates, overwrites or deletes a
\* stored object or changes its metadata: the stored objects change only in
\* the upload of a saveCache call, which stores the object of that call.
C26_RestoreLeavesStoreUnchanged ==
    [][container' # container =>
          \E c \in CallIds :
              /\ Save(c)
              /\ calls[c].pc = "upload"
              /\ calls'[c].pc = "cleanup"
              /\ \A d \in CallIds \ {c} : calls'[d] = calls[d]
              /\ \A n \in DOMAIN container \ {calls[c].blobName} :
                    /\ n \in DOMAIN container'
                    /\ container'[n] = container[n]]_vars

\* a restoreCache call has returned after a download and an extraction of an
\* object another call saved, and the object is stored with its metadata
C26_Witness ==
    \E c \in CallIds :
        /\ Restore(c) /\ Done(c)
        /\ ~calls[c].lookupOnly
        /\ InTrace(c, "download") /\ InTrace(c, "extract")
        /\ calls[c].blobName \in DOMAIN container
        /\ container[calls[c].blobName].metadata.cachekey # Undefined
        /\ container[calls[c].blobName].content.by # c

====
